---- MODULE Spec2Model ----
(***************************************************************************)
(* Model of src/main.py: RundeckROIManager, the reconciler that gives each *)
(* job of a Rundeck server an ROI-metrics plugin entry with an hours       *)
(* field.                                                                  *)
(*                                                                         *)
(* JSON values are records [t, v]: t is the Python type of the value and v *)
(* its payload.  A Python str is a sequence of symbols; a symbol stands    *)
(* for a run of characters, and no symbol of the alphabet used here        *)
(* straddles a boundary of 'roi', 'metric', 'hours' or 'all'.  A dict is   *)
(* the sequence of its <<key, value>> pairs in insertion order, the keys   *)
(* being symbol sequences.  JSON text (the payload of a JSON-encoded str)  *)
(* is the sequence of its tokens, written by dumps and read by loads.      *)
(***************************************************************************)
EXTENDS Integers, Sequences, FiniteSets, TLC

(***************************************************************************)
(* Python values                                                           *)
(***************************************************************************)
None == [t |-> "null", v |-> <<>>]
Str(s) == [t |-> "str", v |-> s]
Num(n) == [t |-> "int", v |-> n]
List(s) == [t |-> "list", v |-> s]
Dict(p) == [t |-> "dict", v |-> p]

\* a one-symbol string, used for dict keys such as 'plugins'
K(s) == <<s>>

\* bool(x) of Python
Truthy(x) ==
  CASE x.t = "null" -> FALSE
    [] x.t = "int" -> x.v # 0
    [] OTHER -> Len(x.v) > 0

isinstance(x, ty) == x.t = ty

\* key in d
Has(d, k) == \E i \in 1..Len(d.v) : d.v[i][1] = k

\* d.get(k, default)
Get(d, k, default) ==
  IF Has(d, k) THEN d.v[CHOOSE i \in 1..Len(d.v) : d.v[i][1] = k][2] ELSE default

\* d[k] = x : an existing key keeps its position, a new key goes last
Put(d, k, x) ==
  IF Has(d, k)
    THEN Dict([i \in 1..Len(d.v) |-> IF d.v[i][1] = k THEN <<k, x>> ELSE d.v[i]])
    ELSE Dict(Append(d.v, <<k, x>>))

\* d.pop(k, None)
Pop(d, k) == Dict(SelectSeq(d.v, LAMBDA p : p[1] # k))

Keys(d) == {d.v[i][1] : i \in 1..Len(d.v)}

(***************************************************************************)
(* str.lower() and the substring test `sub in s`                           *)
(***************************************************************************)
LowerSym(c) ==
  CASE c = "ROI" -> "roi"
    [] c = "Metric" -> "metric"
    [] c = "Hours" -> "hours"
    [] c = "ALL" -> "all"
    [] c = "Ops" -> "ops"
    [] c = "Dev" -> "dev"
    [] OTHER -> c

Lower(s) == IF s = <<>> THEN <<>> ELSE [i \in 1..Len(s) |-> LowerSym(s[i])]

Contains(s, sub) ==
  \E i \in 0..(Len(s) - Len(sub)) : SubSeq(s, i + 1, i + Len(sub)) = sub

(***************************************************************************)
(* json.dumps and json.loads over token sequences                          *)
(***************************************************************************)
Q == "\""
Digits == <<"0", "1", "2", "3", "4", "5", "6", "7", "8", "9">>
DigitSet == {Digits[i] : i \in 1..Len(Digits)}
DigitVal(tok) == (CHOOSE i \in 1..Len(Digits) : Digits[i] = tok) - 1

RECURSIVE dumps(_)
RECURSIVE dumpsItems(_)
RECURSIVE dumpsPairs(_)

dumpsItems(s) ==
  IF s = <<>> THEN <<>>
  ELSE dumps(Head(s)) \o (IF Len(s) > 1 THEN <<",">> \o dumpsItems(Tail(s)) ELSE <<>>)

dumpsPairs(p) ==
  IF p = <<>> THEN <<>>
  ELSE <<Q>> \o Head(p)[1] \o <<Q, ":">> \o dumps(Head(p)[2])
       \o (IF Len(p) > 1 THEN <<",">> \o dumpsPairs(Tail(p)) ELSE <<>>)

dumps(x) ==
  CASE x.t = "null" -> <<"null">>
    [] x.t = "int" -> <<Digits[x.v + 1]>>
    [] x.t = "str" -> <<Q>> \o x.v \o <<Q>>
    [] x.t = "list" -> <<"[">> \o dumpsItems(x.v) \o <<"]">>
    [] x.t = "dict" -> <<"{">> \o dumpsPairs(x.v) \o <<"}">>

ParseFail == [ok |-> FALSE, val |-> None, rest |-> <<>>]
ParseOk(x, r) == [ok |-> TRUE, val |-> x, rest |-> r]

RECURSIVE parseValue(_)
RECURSIVE parseItems(_, _)
RECURSIVE parsePairs(_, _)

\* the text after an opening quote: the symbols up to the closing quote
parseString(toks) ==
  IF \E i \in 1..Len(toks) : toks[i] = Q
    THEN LET i == CHOOSE j \in 1..Len(toks) :
                    toks[j] = Q /\ \A m \in 1..(j - 1) : toks[m] # Q
         IN ParseOk(Str(SubSeq(toks, 1, i - 1)), SubSeq(toks, i + 1, Len(toks)))
    ELSE ParseFail

parseItems(toks, acc) ==
  LET r == parseValue(toks) IN
  IF ~r.ok \/ r.rest = <<>> THEN ParseFail
  ELSE IF Head(r.rest) = "," THEN parseItems(Tail(r.rest), Append(acc, r.val))
  ELSE IF Head(r.rest) = "]" THEN ParseOk(List(Append(acc, r.val)), Tail(r.rest))
  ELSE ParseFail

parsePairs(toks, acc) ==
  IF toks = <<>> \/ Head(toks) # Q THEN ParseFail
  ELSE LET k == parseString(Tail(toks)) IN
       IF ~k.ok \/ k.rest = <<>> \/ Head(k.rest) # ":" THEN ParseFail
       ELSE LET r == parseValue(Tail(k.rest)) IN
            IF ~r.ok \/ r.rest = <<>> THEN ParseFail
            ELSE IF Head(r.rest) = ","
              THEN parsePairs(Tail(r.rest), Put(acc, k.val.v, r.val))
            ELSE IF Head(r.rest) = "}"
              THEN ParseOk(Put(acc, k.val.v, r.val), Tail(r.rest))
            ELSE ParseFail

parseValue(toks) ==
  IF toks = <<>> THEN ParseFail
  ELSE LET h == Head(toks) IN
       CASE h = "null" -> ParseOk(None, Tail(toks))
         [] h \in DigitSet -> ParseOk(Num(DigitVal(h)), Tail(toks))
         [] h = Q -> parseString(Tail(toks))
         [] h = "[" ->
              IF Len(toks) >= 2 /\ toks[2] = "]"
                THEN ParseOk(List(<<>>), SubSeq(toks, 3, Len(toks)))
                ELSE parseItems(Tail(toks), <<>>)
         [] h = "{" ->
              IF Len(toks) >= 2 /\ toks[2] = "}"
                THEN ParseOk(Dict(<<>>), SubSeq(toks, 3, Len(toks)))
                ELSE parsePairs(Tail(toks), Dict(<<>>))
         [] OTHER -> ParseFail

\* json.loads(text): ok is FALSE where Python raises json.JSONDecodeError
loads(text) ==
  LET r == parseValue(text) IN
  IF r.ok /\ r.rest = <<>> THEN [ok |-> TRUE, val |-> r.val]
  ELSE [ok |-> FALSE, val |-> None]

(***************************************************************************)
(* Program constants                                                       *)
(***************************************************************************)
\* str(DEFAULT_HOURS_SAVED)
DEFAULT_HOURS_SAVED == <<"2.0">>

\* the name add_roi_metrics_plugin falls back to
FallbackPluginName == <<"roi", "-", "metric", "s", "-", "data">>

\* the list of line 245 with 'name' in it
fields_to_remove_name ==
  <<K("id"), K("href"), K("permalink"), K("averageDuration"), K("project"), K("name")>>

fields_to_remove ==
  <<K("id"), K("href"), K("permalink"), K("averageDuration"), K("project")>>

\* the descriptor with its key misspelt
new_field_typo ==
  Dict(<< <<K("key"), Str(<<"hour">>)>>,
          <<K("label"), Str(<<"Hours Saved By automation">>)>>,
          <<K("desc"), Str(<<"Number of hours saved by this automation">>)>>,
          <<K("value"), Str(DEFAULT_HOURS_SAVED)>> >>)

\* the descriptor both add_roi_metrics_plugin and update_existing_roi_plugin build
new_field ==
  Dict(<< <<K("key"), Str(<<"hours">>)>>,
          <<K("label"), Str(<<"Hours Saved By automation">>)>>,
          <<K("desc"), Str(<<"Number of hours saved by this automation">>)>>,
          <<K("value"), Str(DEFAULT_HOURS_SAVED)>> >>)

(***************************************************************************)
(* The name test shared by has_hours_field and update_existing_roi_plugin  *)
(***************************************************************************)
\* the test without .lower()
HeuristicCaseSensitive(plugin_name) ==
  /\ Contains(plugin_name, <<"roi">>)
  /\ Contains(plugin_name, <<"metric">>)

HeuristicName(plugin_name) ==
  /\ Contains(Lower(plugin_name), <<"roi">>)
  /\ Contains(Lower(plugin_name), <<"metric">>)

IsRoiPlugin(plugin_name, rpn) ==
  \/ Truthy(rpn) /\ Str(plugin_name) = rpn
  \/ HeuristicName(plugin_name)

(***************************************************************************)
(* detect_roi_plugin_name                                                  *)
(***************************************************************************)
detect_roi_plugin_name(job_def0) ==
  IF isinstance(job_def0, "list")
       /\ (~Truthy(job_def0) \/ ~isinstance(job_def0.v[1], "dict"))
    THEN None
  ELSE
    LET job_def == IF isinstance(job_def0, "list") THEN job_def0.v[1] ELSE job_def0 IN
    IF ~isinstance(job_def, "dict") THEN None
    ELSE LET plugins == Get(job_def, K("plugins"), Dict(<<>>)) IN
      IF ~isinstance(plugins, "dict") THEN None
      ELSE LET execution_plugins == Get(plugins, K("ExecutionLifecycle"), Dict(<<>>)) IN
        IF ~isinstance(execution_plugins, "dict") THEN None
        ELSE LET ep == execution_plugins.v IN
          IF \E i \in 1..Len(ep) : HeuristicName(ep[i][1])
            THEN Str(ep[CHOOSE i \in 1..Len(ep) :
                           /\ HeuristicName(ep[i][1])
                           /\ \A j \in 1..(i - 1) : ~HeuristicName(ep[j][1])][1])
            ELSE None

(***************************************************************************)
(* has_hours_field                                                         *)
(***************************************************************************)
ScanNone == [k |-> "none", value |-> None]
ScanRaise == [k |-> "raise", value |-> None]
ScanFound(x) == [k |-> "found", value |-> x]

\* the loops over a field list (lines 320-326 with strings = TRUE, lines
\* 334-338 with strings = FALSE); "raise" is the AttributeError of
\* .lower() on a key that is not a str
RECURSIVE ScanFields(_, _)
ScanFields(lst, strings) ==
  IF lst = <<>> THEN ScanNone
  ELSE LET field == Head(lst) IN
    IF isinstance(field, "dict")
      THEN LET key == Get(field, K("key"), Str(<<>>)) IN
           IF ~isinstance(key, "str") THEN ScanRaise
           ELSE IF Contains(Lower(key.v), <<"hours">>)
             THEN ScanFound(Get(field, K("value"), Str(<<"unknown">>)))
           ELSE ScanFields(Tail(lst), strings)
    ELSE IF strings /\ isinstance(field, "str") /\ Contains(Lower(field.v), <<"hours">>)
      THEN ScanFound(Str(<<"unknown">>))
    ELSE ScanFields(Tail(lst), strings)

\* lines 309-340 for one ROI plugin config; "skip" is the continue of line 317
HoursInConfig(plugin_config) ==
  LET fields0 == Get(plugin_config, K("fields"), List(<<>>))
      parsed == loads(fields0.v)
  IN
  IF isinstance(fields0, "str") /\ ~parsed.ok THEN [k |-> "skip", value |-> None]
  ELSE
    LET fields == IF isinstance(fields0, "str") THEN parsed.val ELSE fields0
        inFields == IF isinstance(fields, "list") THEN ScanFields(fields.v, TRUE)
                    ELSE ScanNone
        user_roi_data == Get(plugin_config, K("userRoiData"), None)
        roi == loads(user_roi_data.v)
    IN
    IF inFields.k # "none" THEN inFields
    ELSE IF isinstance(user_roi_data, "str") /\ roi.ok /\ isinstance(roi.val, "list")
      THEN ScanFields(roi.val.v, FALSE)
    ELSE ScanNone

\* the loop of line 302 from entry i on
RECURSIVE HoursInPlugins(_, _, _)
HoursInPlugins(ep, i, rpn) ==
  IF i > Len(ep) THEN ScanNone
  ELSE IF ~isinstance(ep[i][2], "dict") THEN HoursInPlugins(ep, i + 1, rpn)
  ELSE IF IsRoiPlugin(ep[i][1], rpn) /\ HoursInConfig(ep[i][2]).k \in {"found", "raise"}
    THEN HoursInConfig(ep[i][2])
  ELSE HoursInPlugins(ep, i + 1, rpn)

\* the body of the try block of has_hours_field
HasHoursBody(job_def, rpn) ==
  IF ~Truthy(job_def) \/ ~isinstance(job_def, "dict") THEN ScanNone
  ELSE LET plugins == Get(job_def, K("plugins"), Dict(<<>>)) IN
    IF ~Truthy(plugins) \/ ~isinstance(plugins, "dict") THEN ScanNone
    ELSE LET execution_plugins == Get(plugins, K("ExecutionLifecycle"), None) IN
      IF ~Truthy(execution_plugins) \/ ~isinstance(execution_plugins, "dict") THEN ScanNone
      ELSE HoursInPlugins(execution_plugins.v, 1, rpn)

\* has_hours_field without its except clause: what the try block raises
\* reaches the caller
HasHoursUncaught(r) ==
  CASE r.k = "found" -> [raised |-> FALSE, present |-> TRUE, value |-> r.value]
    [] r.k = "raise" -> [raised |-> TRUE, present |-> FALSE, value |-> None]
    [] OTHER -> [raised |-> FALSE, present |-> FALSE, value |-> None]

\* the returns of has_hours_field: lines 324, 326, 338 and 342, and line 346
\* of the except Exception that catches what the try block raises
HasHoursReturn(r) ==
  CASE r.k = "found" -> [raised |-> FALSE, present |-> TRUE, value |-> r.value]
    [] r.k = "raise" -> [raised |-> FALSE, present |-> FALSE, value |-> None]
    [] OTHER -> [raised |-> FALSE, present |-> FALSE, value |-> None]

has_hours_field(job_def, rpn) == HasHoursReturn(HasHoursBody(job_def, rpn))

(***************************************************************************)
(* add_roi_metrics_plugin and update_existing_roi_plugin: ret is the       *)
(* returned bool, def the definition as the call leaves it                 *)
(***************************************************************************)
add_roi_metrics_plugin(job_def, rpn) ==
  IF ~Truthy(job_def) \/ ~isinstance(job_def, "dict")
    THEN [ret |-> FALSE, def |-> job_def]
  ELSE
    LET d1 == IF ~Has(job_def, K("plugins")) THEN Put(job_def, K("plugins"), Dict(<<>>))
              ELSE job_def
        d2 == IF ~isinstance(Get(d1, K("plugins"), None), "dict")
                THEN Put(d1, K("plugins"), Dict(<<>>))
                ELSE d1
        p2 == Get(d2, K("plugins"), None)
        p3 == IF ~Has(p2, K("ExecutionLifecycle"))
                THEN Put(p2, K("ExecutionLifecycle"), Dict(<<>>))
                ELSE p2
        p4 == IF ~isinstance(Get(p3, K("ExecutionLifecycle"), None), "dict")
                THEN Put(p3, K("ExecutionLifecycle"), Dict(<<>>))
                ELSE p3
        plugin_name == IF Truthy(rpn) THEN rpn.v ELSE FallbackPluginName
        roi_data == List(<<new_field>>)
        entry == Dict(<< <<K("userRoiData"), Str(dumps(roi_data))>> >>)
        el == Put(Get(p4, K("ExecutionLifecycle"), None), plugin_name, entry)
    IN [ret |-> TRUE,
        def |-> Put(d2, K("plugins"), Put(p4, K("ExecutionLifecycle"), el))]

update_existing_roi_plugin(job_def, rpn) ==
  IF ~Truthy(job_def) \/ ~isinstance(job_def, "dict")
    THEN [ret |-> FALSE, def |-> job_def]
  ELSE LET plugins == Get(job_def, K("plugins"), Dict(<<>>)) IN
    IF ~isinstance(plugins, "dict") THEN [ret |-> FALSE, def |-> job_def]
    ELSE LET execution_plugins == Get(plugins, K("ExecutionLifecycle"), Dict(<<>>)) IN
      IF ~isinstance(execution_plugins, "dict") THEN [ret |-> FALSE, def |-> job_def]
      ELSE
        LET ep == execution_plugins.v
            Hit(i) == isinstance(ep[i][2], "dict") /\ IsRoiPlugin(ep[i][1], rpn)
        IN
        IF ~\E i \in 1..Len(ep) : Hit(i) THEN [ret |-> FALSE, def |-> job_def]
        ELSE
          LET i == CHOOSE j \in 1..Len(ep) : Hit(j) /\ \A m \in 1..(j - 1) : ~Hit(m)
              plugin_config == ep[i][2]
              user_roi_data == Get(plugin_config, K("userRoiData"), Str(<<"[", "]">>))
              parsed == loads(user_roi_data.v)
              roi_fields == IF isinstance(user_roi_data, "str")
                              THEN (IF parsed.ok THEN parsed.val ELSE List(<<>>))
                              ELSE List(<<>>)
          IN
          \* a roi_fields that is not a list cannot be iterated or appended to:
          \* TypeError or AttributeError, caught by the except of line 459
          IF ~isinstance(roi_fields, "list") THEN [ret |-> FALSE, def |-> job_def]
          ELSE IF ScanFields(roi_fields.v, FALSE).k # "none"
            THEN [ret |-> FALSE, def |-> job_def]
          ELSE
            LET config2 == Put(plugin_config, K("userRoiData"),
                               Str(dumps(List(Append(roi_fields.v, new_field)))))
                el2 == Put(execution_plugins, ep[i][1], config2)
            IN [ret |-> TRUE,
                def |-> Put(job_def, K("plugins"),
                            Put(plugins, K("ExecutionLifecycle"), el2))]

(***************************************************************************)
(* validate_job_data, update_job, _update_job_via_import                   *)
(***************************************************************************)
\* ret is the returned bool, data the dict as the call leaves it
validate_job_data(job_data) ==
  IF ~Truthy(job_data) \/ ~isinstance(job_data, "dict")
    THEN [ret |-> FALSE, data |-> job_data]
  ELSE IF ~Has(job_data, K("name")) THEN [ret |-> FALSE, data |-> job_data]
  ELSE IF ~Has(job_data, K("plugins")) THEN [ret |-> TRUE, data |-> job_data]
  ELSE LET plugins == Get(job_data, K("plugins"), None) IN
    IF isinstance(plugins, "null") THEN [ret |-> TRUE, data |-> Pop(job_data, K("plugins"))]
    ELSE IF ~isinstance(plugins, "dict") THEN [ret |-> FALSE, data |-> job_data]
    ELSE IF ~Has(plugins, K("ExecutionLifecycle")) THEN [ret |-> TRUE, data |-> job_data]
    ELSE LET exec_plugins == Get(plugins, K("ExecutionLifecycle"), None) IN
      IF isinstance(exec_plugins, "null")
        THEN [ret |-> TRUE,
              data |-> Put(job_data, K("plugins"), Pop(plugins, K("ExecutionLifecycle")))]
      ELSE IF ~isinstance(exec_plugins, "dict") THEN [ret |-> FALSE, data |-> job_data]
      ELSE [ret |-> TRUE, data |-> job_data]

\* line 237: u is what update_existing_roi_plugin returned and left
AddUnlessUpdated(u, rpn) == IF u.ret THEN u ELSE add_roi_metrics_plugin(u.def, rpn)

\* lines 235-239: update the existing plugin, else add one
EnsureField(job_data, rpn) ==
  AddUnlessUpdated(update_existing_roi_plugin(job_data, rpn), rpn)

RECURSIVE PopAll(_, _)
PopAll(d, ks) == IF ks = <<>> THEN d ELSE PopAll(Pop(d, Head(ks)), Tail(ks))

\* update_job up to the POST: post says whether the import call is issued,
\* data is what it sends, def the definition as mutated in memory
\* lines 250-255 and 266: val is what validate_job_data returned and left
ImportIfValid(val, def) ==
  IF ~val.ret THEN [post |-> FALSE, data |-> val.data, def |-> def]
  ELSE IF ~Has(val.data, K("name")) THEN [post |-> FALSE, data |-> val.data, def |-> def]
  ELSE [post |-> TRUE, data |-> val.data, def |-> def]

\* lines 236-255: e is what the ensure step returned and left
StripAndImport(e) ==
  IF ~e.ret THEN [post |-> FALSE, data |-> e.def, def |-> e.def]
  ELSE ImportIfValid(validate_job_data(PopAll(e.def, fields_to_remove)), e.def)

update_job(job_data, rpn) ==
  IF ~Truthy(job_data) \/ ~isinstance(job_data, "dict")
    THEN [post |-> FALSE, data |-> job_data, def |-> job_data]
  ELSE StripAndImport(EnsureField(job_data, rpn))

(***************************************************************************)
(* Bounds                                                                  *)
(***************************************************************************)
\* executions of run() against the same server, each by a new manager
MaxRuns == 2
\* network calls that fail over the whole behaviour
MaxFail == 1

(***************************************************************************)
(* State                                                                   *)
(***************************************************************************)
VARIABLES
  projects,              \* server: the response of list-projects
  jobs_of,               \* server: project name -> ids of the jobs it lists
  store,                 \* server: job id -> response of get-job-definition
  failBudget,            \* network calls that may still fail
  run,                   \* executions of run() started so far
  dry_run,               \* run(): dry_run
  project_filter,        \* run(): project_filter, the --project of every run
  roi_plugin_name,       \* self.roi_plugin_name
  pc,                    \* position in run()
  projs,                 \* local `projects` of ensure_roi_plugin_name and run
  pi,                    \* index of the project iterated
  jobs,                  \* local `jobs`
  ji,                    \* index of the job iterated
  job_def,               \* local job_def of process_job_roi_metrics
  total_jobs_processed,
  total_jobs_updated,
  calls,                 \* the remote calls issued, in order
  modes,                 \* dry_run of each run started
  last,                  \* what the last job handled was fetched as and sent as
  reported               \* <<run, job>> of the jobs a dry run reported at line 547

vars == <<projects, jobs_of, store, failBudget, run, dry_run, project_filter,
          roi_plugin_name, pc, projs, pi, jobs, ji, job_def,
          total_jobs_processed, total_jobs_updated, calls, modes, last,
          reported>>

server == <<projects, jobs_of>>

Min(a, b) == IF a < b THEN a ELSE b

\* outcomes the network allows for the next call
Net == IF failBudget > 0 THEN {TRUE, FALSE} ELSE {TRUE}

Call(kind, project, job, ok) ==
  [run |-> run, kind |-> kind, project |-> project, job |-> job, ok |-> ok]

\* get_job_definition on a response body (lines 95-99)
get_job_definition(body) ==
  IF isinstance(body, "list") /\ Len(body.v) > 0 THEN body.v[1] ELSE body

\* project.get('name') as a symbol sequence, <<>> when None
NameOf(project) == Get(project, K("name"), Str(<<>>)).v

NoHas == [raised |-> FALSE, present |-> FALSE, value |-> None]

NoLast ==
  [run |-> 0, job |-> "", fetched |-> None, rpn |-> None, has |-> NoHas,
   outcome |-> "none", sent |-> None, mem |-> None]

(***************************************************************************)
(* run(): start, and ensure_roi_plugin_name                                *)
(***************************************************************************)
\* positions of run() at which the process has ended: before its first run,
\* after the summary, after an uncaught exception, after the return of line
\* 510 and after the return of line 516
Ended == {"idle", "done", "raised", "undetected", "noprojects"}

\* main() builds a new manager and calls run (lines 611-614, 500-508)
StartRun ==
  /\ pc \in Ended
  /\ run < MaxRuns
  /\ \E d \in BOOLEAN :
       /\ dry_run' = d
       /\ modes' = Append(modes, d)
  /\ run' = run + 1
  /\ roi_plugin_name' = None
  /\ pc' = "e_projects"
  /\ projs' = <<>> /\ pi' = 1 /\ jobs' = <<>> /\ ji' = 1 /\ job_def' = None
  /\ total_jobs_processed' = 0 /\ total_jobs_updated' = 0
  /\ UNCHANGED <<reported, projects, jobs_of, store, failBudget, project_filter, calls, last>>

\* lines 159-162
EnsureGetProjects ==
  /\ pc = "e_projects"
  /\ \E ok \in Net :
       /\ calls' = Append(calls, Call("projects", <<>>, "", ok))
       /\ failBudget' = IF ok THEN failBudget ELSE failBudget - 1
       /\ projs' = IF ok THEN projects.v ELSE <<>>
       /\ pc' = IF ok /\ Len(projects.v) > 0 THEN "e_project" ELSE "undetected"
  /\ pi' = 1
  /\ UNCHANGED <<reported, projects, jobs_of, store, run, dry_run, project_filter,
                 roi_plugin_name, jobs, ji, job_def, total_jobs_processed,
                 total_jobs_updated, modes, last>>

\* one iteration of the loop of line 164, up to the loop of line 173;
\* past the third project the function returns False (line 187)
EnsureProject ==
  /\ pc = "e_project"
  /\ IF pi > Min(3, Len(projs))
       THEN /\ pc' = "undetected"
            /\ UNCHANGED <<calls, failBudget, jobs, ji, pi>>
       ELSE LET project_name == NameOf(projs[pi]) IN
            IF project_name = <<>>
              THEN /\ pi' = pi + 1
                   /\ UNCHANGED <<calls, failBudget, jobs, ji, pc>>
              ELSE \E ok \in Net :
                     LET got == IF ok THEN jobs_of[project_name] ELSE <<>> IN
                     /\ calls' = Append(calls, Call("jobs", project_name, "", ok))
                     /\ failBudget' = IF ok THEN failBudget ELSE failBudget - 1
                     /\ jobs' = got
                     /\ ji' = 1
                     /\ IF got = <<>>
                          THEN pi' = pi + 1 /\ pc' = pc
                          ELSE pi' = pi /\ pc' = "e_job"
  /\ UNCHANGED <<reported, projects, jobs_of, store, run, dry_run, project_filter,
                 roi_plugin_name, projs, job_def, total_jobs_processed,
                 total_jobs_updated, modes, last>>

\* one iteration of the loop of line 173
EnsureJob ==
  /\ pc = "e_job"
  /\ IF ji > Min(5, Len(jobs))
       THEN /\ pi' = pi + 1 /\ pc' = "e_project"
            /\ UNCHANGED <<calls, failBudget, ji, roi_plugin_name>>
       ELSE \E ok \in Net :
              LET got == IF ok THEN get_job_definition(store[jobs[ji]]) ELSE None
                  detected_name == IF Truthy(got) THEN detect_roi_plugin_name(got)
                                   ELSE None
              IN
              /\ calls' = Append(calls, Call("get", NameOf(projs[pi]), jobs[ji], ok))
              /\ failBudget' = IF ok THEN failBudget ELSE failBudget - 1
              /\ IF Truthy(detected_name)
                   THEN /\ roi_plugin_name' = detected_name
                        /\ pc' = "r_projects"
                        /\ UNCHANGED <<pi, ji>>
                   ELSE /\ ji' = ji + 1
                        /\ UNCHANGED <<roi_plugin_name, pc, pi>>
  /\ UNCHANGED <<reported, projects, jobs_of, store, run, dry_run, project_filter,
                 projs, jobs, job_def, total_jobs_processed,
                 total_jobs_updated, modes, last>>

(***************************************************************************)
(* run(): the loop over projects and jobs                                  *)
(***************************************************************************)
\* lines 513-519
RunGetProjects ==
  /\ pc = "r_projects"
  /\ \E ok \in Net :
       /\ calls' = Append(calls, Call("projects", <<>>, "", ok))
       /\ failBudget' = IF ok THEN failBudget ELSE failBudget - 1
       /\ projs' = IF ok THEN projects.v ELSE <<>>
       /\ pc' = IF ok /\ Len(projects.v) > 0 THEN "r_project" ELSE "noprojects"
  /\ pi' = 1 /\ jobs' = <<>> /\ ji' = 1
  /\ total_jobs_processed' = 0 /\ total_jobs_updated' = 0
  /\ UNCHANGED <<reported, projects, jobs_of, store, run, dry_run, project_filter,
                 roi_plugin_name, job_def, modes, last>>

\* one iteration of the loop of line 521, up to the loop of line 534.
\* A project without a name: .lower() of None raises when a filter is set
\* (line 525); with filter 'all' the request for project None is answered
\* with an HTTP error, which get_project_jobs turns into [].
RunProject ==
  /\ pc = "r_project"
  /\ pi <= Len(projs)
  /\ LET project_name == NameOf(projs[pi])
         filtered == Lower(project_filter) # <<"all">>
     IN
     IF filtered /\ project_name = <<>>
       THEN /\ pc' = "raised"
            /\ UNCHANGED <<calls, failBudget, jobs, ji, pi>>
     ELSE IF filtered /\ Lower(project_name) # Lower(project_filter)
       THEN /\ pi' = pi + 1
            /\ UNCHANGED <<calls, failBudget, jobs, ji, pc>>
     ELSE IF project_name = <<>>
       THEN /\ calls' = Append(calls, Call("jobs", <<"None">>, "", FALSE))
            /\ pi' = pi + 1
            /\ UNCHANGED <<failBudget, jobs, ji, pc>>
     ELSE \E ok \in Net :
            LET got == IF ok THEN jobs_of[project_name] ELSE <<>> IN
            /\ calls' = Append(calls, Call("jobs", project_name, "", ok))
            /\ failBudget' = IF ok THEN failBudget ELSE failBudget - 1
            /\ jobs' = got
            /\ ji' = 1
            /\ IF got = <<>>
                 THEN pi' = pi + 1 /\ pc' = pc
                 ELSE pi' = pi /\ pc' = "r_job"
  /\ UNCHANGED <<reported, projects, jobs_of, store, run, dry_run, project_filter,
                 roi_plugin_name, projs, job_def, total_jobs_processed,
                 total_jobs_updated, modes, last>>

\* what get_job_definition returns for job: None when the call fails
Response(job, ok) == IF ok THEN get_job_definition(store[job]) ELSE None

\* what is decided without the test of has_field (lines 479 and 543)
DecidedAnyway(got, has, todo) ==
  [run |-> run, job |-> jobs[ji], fetched |-> got, rpn |-> roi_plugin_name,
   has |-> has,
   outcome |-> IF ~Truthy(got) THEN "failed" ELSE todo,
   sent |-> None, mem |-> got]

\* lines 541-550 and 473-482: what is decided on the fetched definition; todo
\* is the outcome of a job that lacks the field ("would" in a dry run)
Decided(got, has, todo) ==
  [run |-> run, job |-> jobs[ji], fetched |-> got, rpn |-> roi_plugin_name,
   has |-> has,
   outcome |-> IF ~Truthy(got) THEN "failed"
               ELSE IF has.present THEN "already" ELSE todo,
   sent |-> None, mem |-> got]

Fetched(got, todo) ==
  Decided(got, IF Truthy(got) THEN has_hours_field(got, roi_plugin_name) ELSE NoHas, todo)

\* where the loop of line 534 goes after the job at ji
NextJob ==
  IF ji < Len(jobs)
    THEN ji' = ji + 1 /\ pi' = pi /\ pc' = "r_job"
    ELSE ji' = 1 /\ pi' = pi + 1 /\ pc' = "r_project"

\* lines 535-550: one job of a dry run
RunJobDry ==
  /\ pc = "r_job"
  /\ dry_run
  /\ total_jobs_processed' = total_jobs_processed + 1
  /\ \E ok \in Net :
       /\ calls' = Append(calls, Call("get", NameOf(projs[pi]), jobs[ji], ok))
       /\ failBudget' = IF ok THEN failBudget ELSE failBudget - 1
       /\ last' = Fetched(Response(jobs[ji], ok), "would")
       /\ total_jobs_updated' =
            IF last'.outcome = "would" THEN total_jobs_updated + 1
            ELSE total_jobs_updated
       /\ reported' =
            IF last'.outcome = "would" THEN reported \cup {<<run, jobs[ji]>>}
            ELSE reported
  /\ NextJob
  /\ UNCHANGED <<projects, jobs_of, store, run, dry_run, project_filter,
                 roi_plugin_name, projs, jobs, job_def, modes>>

\* lines 535, 553 and process_job_roi_metrics up to line 482
ProcessJobFetch ==
  /\ pc = "r_job"
  /\ total_jobs_processed' = total_jobs_processed + 1
  /\ \E ok \in Net :
       /\ calls' = Append(calls, Call("get", NameOf(projs[pi]), jobs[ji], ok))
       /\ failBudget' = IF ok THEN failBudget ELSE failBudget - 1
       /\ last' = Fetched(Response(jobs[ji], ok), "pending")
       /\ IF last'.outcome = "pending"
            THEN job_def' = last'.fetched /\ pc' = "r_update" /\ UNCHANGED <<pi, ji>>
            ELSE job_def' = None /\ NextJob
  /\ UNCHANGED <<reported, projects, jobs_of, store, run, dry_run, project_filter,
                 roi_plugin_name, projs, jobs, total_jobs_updated, modes>>

\* the test of line 537 dropped: a dry run handles its jobs as an apply run does
RunJobGetAlways == ProcessJobFetch

\* the else branch of line 537
RunJobGet == ~dry_run /\ ProcessJobFetch

\* process_job_roi_metrics from line 485 on: update_job and its import call.
\* The server keeps the imported definition as it was sent.
Import(u, job) ==
  IF ~u.post
    THEN /\ last' = [last EXCEPT !.outcome = "failed", !.mem = u.def]
         /\ UNCHANGED <<calls, failBudget, store, total_jobs_updated>>
    ELSE \E ok \in Net :
           /\ calls' = Append(calls, Call("import", NameOf(projs[pi]), job, ok))
           /\ failBudget' = IF ok THEN failBudget ELSE failBudget - 1
           /\ store' = IF ok
                         THEN [store EXCEPT ![job] =
                                 IF isinstance(@, "list") /\ Len(@.v) > 0
                                   THEN List(<<u.data>>) ELSE u.data]
                         ELSE store
           /\ total_jobs_updated' =
                IF ok THEN total_jobs_updated + 1 ELSE total_jobs_updated
           /\ last' = [last EXCEPT !.outcome = IF ok THEN "updated" ELSE "failed",
                                   !.sent = u.data, !.mem = u.def]

RunJobUpdate ==
  /\ pc = "r_update"
  /\ Import(update_job(job_def, roi_plugin_name), jobs[ji])
  /\ job_def' = None
  /\ NextJob
  /\ UNCHANGED <<reported, projects, jobs_of, run, dry_run, project_filter,
                 roi_plugin_name, projs, jobs, total_jobs_processed, modes>>

\* lines 556-559: the summary
Finish ==
  /\ pc = "r_project"
  /\ pi > Len(projs)
  /\ pc' = "done"
  /\ UNCHANGED <<reported, projects, jobs_of, store, failBudget, run, dry_run,
                 project_filter, roi_plugin_name, projs, pi, jobs, ji, job_def,
                 total_jobs_processed, total_jobs_updated, calls, modes, last>>

(***************************************************************************)
(* The job definitions a server may hold                                   *)
(***************************************************************************)
Absent == [t |-> "absent", v |-> <<>>]

\* field descriptors: well formed ones, and malformed ones
dHours5 == Dict(<< <<K("key"), Str(<<"hours">>)>>, <<K("value"), Str(<<"5">>)>> >>)
dHoursCap == Dict(<< <<K("key"), Str(<<"Hours", "Saved">>)>>, <<K("value"), Str(<<"7">>)>> >>)
dHoursNoVal == Dict(<< <<K("key"), Str(<<"hours">>)>> >>)
dCost == Dict(<< <<K("key"), Str(<<"cost">>)>>, <<K("value"), Str(<<"9">>)>> >>)
dNoKey == Dict(<< <<K("value"), Str(<<"1">>)>> >>)
dNumKey == Dict(<< <<K("key"), Num(5)>>, <<K("value"), Str(<<"3">>)>> >>)
sHours == Str(<<"Hours">>)

\* texts json.loads rejects
BadJson == {<<"[", "{">>, <<"hours">>}

UserLists ==
  {<<>>, <<dCost>>, <<dHours5>>, <<dCost, dHours5>>, <<dHoursCap, dHours5>>,
   <<dNumKey, dHours5>>, <<dNoKey, Num(5)>>, <<dHoursNoVal>>, <<sHours>>}

\* values of userRoiData
UserVals ==
  {Absent, None, Str(<<"[", "{">>), Str(dumps(dHours5)), Str(<<"5">>)}
  \cup {Str(dumps(List(l))) : l \in UserLists}
  \cup {List(l) : l \in {<<>>, <<dCost>>, <<dHours5>>}}

\* values of fields
FieldVals ==
  {Absent, None, Str(<<"[", "{">>), Str(dumps(dHours5))}
  \cup {Str(dumps(List(l))) : l \in {<<dCost>>, <<dHours5>>, <<dHoursCap, dHours5>>}}
  \cup {List(l) : l \in {<<>>, <<dCost>>, <<dHours5>>, <<dHoursCap, dHours5>>,
                         <<dNumKey>>, <<dNumKey, dHours5>>, <<sHours>>}}

\* an ROI plugin config; threshold is a key the tool knows nothing about
Config(f, u) ==
  Dict((IF f = Absent THEN <<>> ELSE << <<K("fields"), f>> >>)
       \o << <<K("threshold"), Str(<<"1">>)>> >>
       \o (IF u = Absent THEN <<>> ELSE << <<K("userRoiData"), u>> >>))

Configs == {Config(f, u) : f \in FieldVals, u \in UserVals}

cfgHours == Config(Absent, Str(dumps(List(<<dHours5>>))))
cfgNoHours == Config(Absent, Str(dumps(List(<<dCost>>))))
cfgOther == Dict(<< <<K("killChilds"), Str(<<"true">>)>> >>)

RoiA == <<"roi", "-", "metric", "s", "-", "data">>
RoiB == <<"ROI", "-", "Metric", "s">>
OnlyRoi == <<"roi", "-", "data">>
KillHandler == <<"killhandler">>

\* the ExecutionLifecycle mappings around a config
Layouts(c) ==
  {Dict(<< <<RoiA, c>> >>),
   Dict(<< <<RoiB, c>> >>),
   Dict(<< <<KillHandler, cfgOther>>, <<RoiB, c>>, <<RoiA, cfgNoHours>> >>)}

TopFields ==
  << <<K("id"), Str(<<"uuid">>)>>,
     <<K("name"), Str(<<"job">>)>>,
     <<K("description"), Str(<<"text">>)>>,
     <<K("project"), Str(<<"Ops">>)>>,
     <<K("href"), Str(<<"url">>)>>,
     <<K("permalink"), Str(<<"url">>)>>,
     <<K("averageDuration"), Num(7)>> >>

WithPlugins(pv) == Dict(TopFields \o << <<K("plugins"), pv>> >>)
WithEL(el) ==
  WithPlugins(Dict(<< <<K("LogFilter"), List(<<>>)>>, <<K("ExecutionLifecycle"), el>> >>))

DefNoPlugins == Dict(TopFields)
DefRoiHours == WithEL(Dict(<< <<RoiA, cfgHours>> >>))
DefRoiNoHours == WithEL(Dict(<< <<RoiB, cfgNoHours>> >>))

\* definitions without a (well formed) ROI plugin entry
PlainDefs ==
  {DefNoPlugins,
   Pop(DefNoPlugins, K("name")),
   Dict(<<>>), None, Str(<<"error">>), List(<<DefNoPlugins>>),
   WithPlugins(None), WithPlugins(List(<<>>)), WithPlugins(Dict(<<>>)),
   WithEL(None), WithEL(List(<<>>)), WithEL(Dict(<<>>)),
   WithEL(Dict(<< <<KillHandler, cfgOther>> >>)),
   WithEL(Dict(<< <<OnlyRoi, cfgHours>> >>)),
   WithEL(Dict(<< <<RoiA, None>> >>)),
   WithEL(Dict(<< <<RoiB, Str(<<"x">>)>>, <<KillHandler, cfgOther>> >>)),
   Pop(DefRoiNoHours, K("name"))}

RoiDefs == UNION {{WithEL(el) : el \in Layouts(c)} : c \in Configs}

JobDefs == PlainDefs \cup RoiDefs

\* the definitions of the first job, which decide the detected plugin name
Anchors == {DefRoiHours, DefNoPlugins}

Body(d) == List(<<d>>)

ProjOps == Dict(<< <<K("name"), Str(<<"Ops">>)>> >>)
ProjDev == Dict(<< <<K("name"), Str(<<"Dev">>)>> >>)
ProjQa == Dict(<< <<K("name"), Str(<<"Qa">>)>> >>)
ProjWeb == Dict(<< <<K("name"), Str(<<"Web">>)>> >>)
ProjNoName == Dict(<< <<K("description"), Str(<<"text">>)>> >>)

JobIds == {"j1", "j2", "j3"}

InitRun ==
  /\ run = 0 /\ dry_run = TRUE /\ roi_plugin_name = None /\ pc = "idle"
  /\ projs = <<>> /\ pi = 1 /\ jobs = <<>> /\ ji = 1 /\ job_def = None
  /\ total_jobs_processed = 0 /\ total_jobs_updated = 0
  /\ calls = <<>> /\ modes = <<>> /\ last = NoLast /\ reported = {}

\* one project of two jobs, every shape of definition, a network that works
InitRecon ==
  /\ projects = List(<<ProjOps>>)
  /\ jobs_of = [n \in {<<"Ops">>} |-> <<"j1", "j2">>]
  /\ \E a \in Anchors, d \in JobDefs :
       store = [j \in JobIds |-> IF j = "j1" THEN Body(a)
                                 ELSE IF j = "j2" THEN Body(d)
                                 ELSE Body(DefNoPlugins)]
  /\ failBudget = 0
  /\ project_filter = <<"all">>
  /\ InitRun

Filters == {<<"all">>, <<"ALL">>, <<"ops">>, <<"Dev">>}

\* the project lists a server may answer with, and the jobs of each project
Topologies ==
  {[projects |-> List(<<ProjOps, ProjDev>>), ops |-> <<"j1", "j2">>, dev |-> <<"j3">>],
   [projects |-> List(<<ProjDev, ProjQa, ProjWeb, ProjOps>>), ops |-> <<"j1">>, dev |-> <<>>],
   [projects |-> List(<<ProjNoName, ProjOps>>), ops |-> <<"j1", "j2">>, dev |-> <<>>],
   [projects |-> List(<<>>), ops |-> <<>>, dev |-> <<>>]}


\* several projects, any filter, a network that may fail
Init ==
  /\ \E t \in Topologies :
       /\ projects = t.projects
       /\ jobs_of = [n \in {<<"Ops">>, <<"Dev">>, <<"Qa">>, <<"Web">>} |->
                       IF n = <<"Ops">> THEN t.ops
                       ELSE IF n = <<"Dev">> THEN t.dev ELSE <<>>]
       \* a job no project lists is never asked for: its definition is fixed
       /\ \E d1 \in IF Len(t.ops) > 0 THEN {DefRoiHours, DefNoPlugins} ELSE {DefNoPlugins},
             d2 \in IF Len(t.ops) > 1 THEN {DefRoiNoHours, Str(<<"error">>)}
                                      ELSE {DefNoPlugins},
             d3 \in IF Len(t.dev) > 0 THEN {DefRoiNoHours, DefNoPlugins} ELSE {DefNoPlugins} :
            store = [j \in JobIds |-> IF j = "j1" THEN Body(d1)
                                      ELSE IF j = "j2" THEN Body(d2)
                                      ELSE d3]
  /\ failBudget = MaxFail
  /\ project_filter \in Filters
  /\ InitRun

Next ==
  \/ StartRun
  \/ EnsureGetProjects
  \/ EnsureProject
  \/ EnsureJob
  \/ RunGetProjects
  \/ RunProject
  \/ RunJobDry
  \/ RunJobGet
  \/ RunJobUpdate
  \/ Finish

Spec == Init /\ [][Next]_vars
SpecRecon == InitRecon /\ [][Next]_vars

(***************************************************************************)
(* C1: in a dry run no import (POST) call is issued; the only calls are    *)
(* list-projects, list-jobs and get-job-definition.                        *)
(***************************************************************************)
DryRunNeverWrites ==
  \A i \in 1..Len(calls) :
    modes[calls[i].run] => calls[i].kind \in {"projects", "jobs", "get"}

\* a dry run ended after it found a job that lacks the hours field
DryRunFoundWork ==
  /\ pc = "done" /\ dry_run
  /\ last.run = run /\ last.outcome = "would"
  /\ \E i \in 1..Len(calls) : calls[i].run = run /\ calls[i].kind = "get"

(***************************************************************************)
(* What the claims speak of                                                *)
(***************************************************************************)
\* the ExecutionLifecycle entries of a definition, <<>> when it has none
EntriesOf(d) ==
  IF ~isinstance(d, "dict") THEN <<>>
  ELSE IF ~isinstance(Get(d, K("plugins"), None), "dict") THEN <<>>
  ELSE IF ~isinstance(Get(Get(d, K("plugins"), None), K("ExecutionLifecycle"), None), "dict")
    THEN <<>>
  ELSE Get(Get(d, K("plugins"), None), K("ExecutionLifecycle"), None).v

\* the entries of d that carry the name of an ROI-metrics plugin
RoiEntries(d, rpn) ==
  {i \in 1..Len(EntriesOf(d)) : IsRoiPlugin(EntriesOf(d)[i][1], rpn)}

\* the descriptors of a field list in either encoding, <<>> when it is neither
Descriptors(x) ==
  IF isinstance(x, "list") THEN x.v
  ELSE IF isinstance(x, "str") /\ loads(x.v).ok /\ isinstance(loads(x.v).val, "list")
    THEN loads(x.v).val.v
  ELSE <<>>

IsHoursDescriptor(f) ==
  /\ isinstance(f, "dict")
  /\ isinstance(Get(f, K("key"), Str(<<>>)), "str")
  /\ Contains(Lower(Get(f, K("key"), Str(<<>>)).v), <<"hours">>)

HoursIn(x) == {i \in 1..Len(Descriptors(x)) : IsHoursDescriptor(Descriptors(x)[i])}

\* the hours descriptors a plugin config holds, in fields and in userRoiData
HoursCount(c) ==
  IF ~isinstance(c, "dict") THEN 0
  ELSE Cardinality(HoursIn(Get(c, K("fields"), None)))
       + Cardinality(HoursIn(Get(c, K("userRoiData"), None)))

AllCallsOk == \A i \in 1..Len(calls) : calls[i].ok

\* the last job handled was handled by an apply run, and its outcome is decided
Applied ==
  /\ last.run > 0
  /\ ~modes[last.run]
  /\ last.outcome # "pending"

\* the definition the server holds for a job
Stored(job) == get_job_definition(store[job])

(***************************************************************************)
(* C2: idempotence.  When two apply runs follow each other on the same     *)
(* server and no call fails, the second run issues no import call and      *)
(* counts no update.                                                       *)
(***************************************************************************)
SecondRunMutatesNothing ==
  (run = 2 /\ ~modes[1] /\ ~modes[2] /\ AllCallsOk)
    => /\ \A i \in 1..Len(calls) : calls[i].run = 2 => calls[i].kind # "import"
       /\ total_jobs_updated = 0

(***************************************************************************)
(* C3: after an apply run in which every call succeeds, a job whose        *)
(* fetched definition had no ROI-metrics plugin entry has been written     *)
(* back with one ROI plugin entry, whose userRoiData decodes to a list of  *)
(* one descriptor with key 'hours' and the default value.                  *)
(***************************************************************************)
\* d holds one ROI plugin entry, and its userRoiData is the hours field alone
OneDefaultHoursEntry(d, rpn) ==
  /\ Cardinality(RoiEntries(d, rpn)) = 1
  /\ \A i \in RoiEntries(d, rpn) :
       LET c == EntriesOf(d)[i][2] IN
       /\ isinstance(c, "dict")
       /\ isinstance(Get(c, K("userRoiData"), None), "str")
       /\ loads(Get(c, K("userRoiData"), None).v).ok
       /\ isinstance(loads(Get(c, K("userRoiData"), None).v).val, "list")
       /\ Len(Descriptors(Get(c, K("userRoiData"), None))) = 1
       /\ LET f == Descriptors(Get(c, K("userRoiData"), None))[1] IN
          /\ isinstance(f, "dict")
          /\ Get(f, K("key"), None) = Str(<<"hours">>)
          /\ Get(f, K("value"), None) = Str(DEFAULT_HOURS_SAVED)

WrittenBack ==
  /\ last.outcome = "updated"
  /\ ~isinstance(last.sent, "null")
  /\ Stored(last.job) = last.sent
  /\ OneDefaultHoursEntry(last.sent, last.rpn)

\* the claim as it stands, a fetched definition being a JSON object that is
\* not empty (anything else is not retrieved as a definition, line 473, or is
\* refused by update_job, line 227)
NoRoiJobGetsOneField ==
  (/\ Applied /\ AllCallsOk
   /\ isinstance(last.fetched, "dict") /\ Truthy(last.fetched)
   /\ RoiEntries(last.fetched, last.rpn) = {})
    => WrittenBack

\* C3 as amended: the fetched definition is a dict that has a name
NamedNoRoiJobGetsOneField ==
  (/\ Applied /\ AllCallsOk
   /\ isinstance(last.fetched, "dict") /\ Has(last.fetched, K("name"))
   /\ RoiEntries(last.fetched, last.rpn) = {})
    => WrittenBack

\* a job without plugins has been given the plugin entry
NoRoiJobWritten ==
  /\ Applied /\ AllCallsOk
  /\ isinstance(last.fetched, "dict") /\ Has(last.fetched, K("name"))
  /\ RoiEntries(last.fetched, last.rpn) = {}
  /\ last.outcome = "updated"

(***************************************************************************)
(* C4: when the ROI plugin entry of the fetched definition holds a         *)
(* descriptor whose key contains 'hours', in fields or in userRoiData and  *)
(* in either encoding, an apply run leaves the definition as it is, issues *)
(* no import call and does not count the job as updated.                   *)
(***************************************************************************)
HoldsHours(d, rpn) ==
  \E i \in RoiEntries(d, rpn) : HoursCount(EntriesOf(d)[i][2]) >= 1

\* a descriptor is a dict whose key, when it has one, is a string
WellDescriptor(f) ==
  isinstance(f, "dict") /\ isinstance(Get(f, K("key"), Str(<<>>)), "str")

\* a field list: absent, or a list of descriptors in one of the two encodings
WellList(x) ==
  \/ x = Absent
  \/ /\ \/ isinstance(x, "list")
        \/ isinstance(x, "str") /\ loads(x.v).ok /\ isinstance(loads(x.v).val, "list")
     /\ \A i \in 1..Len(Descriptors(x)) : WellDescriptor(Descriptors(x)[i])

\* every ROI plugin entry of d is a dict whose two field lists are well formed
WellFormedRoi(d, rpn) ==
  \A i \in RoiEntries(d, rpn) :
    LET c == EntriesOf(d)[i][2] IN
    /\ isinstance(c, "dict")
    /\ WellList(Get(c, K("fields"), Absent))
    /\ WellList(Get(c, K("userRoiData"), Absent))

\* stated for the definitions whose ROI entries are well formed
HoursPresentNoMutation ==
  (/\ Applied
   /\ WellFormedRoi(last.fetched, last.rpn)
   /\ HoldsHours(last.fetched, last.rpn))
    => /\ last.outcome = "already"
       /\ isinstance(last.sent, "null")
       /\ last.mem = last.fetched
       /\ Stored(last.job) = last.fetched

(***************************************************************************)
(* C5: after reconciliation each ROI plugin entry of the job's definition  *)
(* holds at most one hours descriptor.  A definition fetched with two      *)
(* keeps them (the tool removes nothing), so the formula states the claim  *)
(* for the definitions that are fetched with at most one per entry.        *)
(***************************************************************************)
AtMostOneHours(d, rpn) ==
  \A i \in RoiEntries(d, rpn) : HoursCount(EntriesOf(d)[i][2]) <= 1

ReconciledAtMostOneHours ==
  (Applied /\ AtMostOneHours(last.fetched, last.rpn))
    => AtMostOneHours(Stored(last.job), last.rpn)

(***************************************************************************)
(* C6: the ensure step of update_job adds the field to an existing ROI     *)
(* plugin entry, is a no-op when the entry has an hours field, creates an  *)
(* entry only when the definition has none, and never replaces an entry:   *)
(* what an entry held besides userRoiData it still holds.  The hours field *)
(* of the no-op is read where the ensure step reads it, in the JSON string *)
(* of userRoiData (lines 427-441).                                         *)
(***************************************************************************)
\* update_job ran its ensure step on the definition fetched last
Ensured ==
  /\ Applied
  /\ last.outcome \in {"updated", "failed"}
  /\ isinstance(last.fetched, "dict") /\ Truthy(last.fetched)

EntryNames(d) == {EntriesOf(d)[i][1] : i \in 1..Len(EntriesOf(d))}
EntryOf(d, name) == Get(Dict(EntriesOf(d)), name, Absent)

\* sc holds every key of fc but userRoiData, with the value it has in fc
KeepsOtherKeys(fc, sc) ==
  /\ isinstance(sc, "dict")
  /\ \A k \in Keys(fc) \ {K("userRoiData")} : Get(sc, k, Absent) = Get(fc, k, Absent)

\* the userRoiData of c is a JSON string that holds an hours descriptor
UserHours(c) ==
  /\ isinstance(c, "dict")
  /\ isinstance(Get(c, K("userRoiData"), None), "str")
  /\ HoursIn(Get(c, K("userRoiData"), None)) # {}

EnsureKeepsEntries ==
  Ensured =>
    /\ \A i \in RoiEntries(last.fetched, last.rpn) :
         LET name == EntriesOf(last.fetched)[i][1]
             fc == EntriesOf(last.fetched)[i][2]
         IN isinstance(fc, "dict") =>
              /\ KeepsOtherKeys(fc, EntryOf(last.mem, name))
              /\ UserHours(fc) => EntryOf(last.mem, name) = fc
    /\ (\E i \in RoiEntries(last.fetched, last.rpn) : UserHours(EntriesOf(last.fetched)[i][2]))
         => last.mem = last.fetched
    /\ EntryNames(last.mem) # EntryNames(last.fetched)
         => RoiEntries(last.fetched, last.rpn) = {}

(***************************************************************************)
(* C7: the definition sent by the import call is the fetched one without   *)
(* id, href, permalink, averageDuration and project, and with one hours    *)
(* descriptor added to the userRoiData of one ROI plugin entry; every      *)
(* other top-level field, plugin entry, config key and descriptor is sent  *)
(* as it was fetched.                                                      *)
(***************************************************************************)
Removed == {fields_to_remove[i] : i \in 1..Len(fields_to_remove)}

DictOr(x) == IF isinstance(x, "dict") THEN x ELSE Dict(<<>>)

\* s holds the keys of f but `except`, with their values, and no key besides
SameBut(f, s, except) ==
  /\ isinstance(s, "dict")
  /\ \A k \in Keys(f) \ except : Has(s, k) /\ Get(s, k, Absent) = Get(f, k, Absent)
  /\ Keys(s) \subseteq Keys(f) \cup except

EntryPatched(fc, sc) ==
  /\ SameBut(DictOr(fc), sc, {K("userRoiData")})
  /\ isinstance(Get(sc, K("userRoiData"), None), "str")
  /\ Descriptors(Get(sc, K("userRoiData"), None))
       = Descriptors(Get(DictOr(fc), K("userRoiData"), None)) \o <<new_field>>

Minimal(f, s) ==
  /\ \A k \in Removed : ~Has(s, k)
  /\ SameBut(PopAll(f, fields_to_remove), s, {K("plugins")})
  /\ SameBut(DictOr(Get(f, K("plugins"), None)), Get(s, K("plugins"), None),
             {K("ExecutionLifecycle")})
  /\ \E name \in EntryNames(s) :
       /\ SameBut(Dict(EntriesOf(f)), Dict(EntriesOf(s)), {name})
       /\ EntryPatched(EntryOf(f, name), EntryOf(s, name))

PatchIsMinimal ==
  (Applied /\ ~isinstance(last.sent, "null")) => Minimal(last.fetched, last.sent)

(***************************************************************************)
(* C8: for a definition whose ROI plugin entries give their field lists    *)
(* as JSON strings or as native lists, has_hours_field answers present     *)
(* exactly when a descriptor's key contains 'hours' in any case, and the   *)
(* value it returns is that of the first such descriptor.                  *)
(***************************************************************************)
MinOf(S) == CHOOSE x \in S : \A y \in S : x <= y

RoiWithHours(d, rpn) ==
  {i \in RoiEntries(d, rpn) : HoursCount(EntriesOf(d)[i][2]) >= 1}

\* the first hours descriptor of a config: fields is read before userRoiData
FirstHoursOf(c) ==
  IF HoursIn(Get(c, K("fields"), None)) # {}
    THEN Descriptors(Get(c, K("fields"), None))[MinOf(HoursIn(Get(c, K("fields"), None)))]
    ELSE Descriptors(Get(c, K("userRoiData"), None))
           [MinOf(HoursIn(Get(c, K("userRoiData"), None)))]

\* has_hours_field has answered for the definition fetched last
Answered ==
  /\ last.run > 0
  /\ isinstance(last.fetched, "dict") /\ Truthy(last.fetched)

BothEncodingsFirstMatch ==
  (Answered /\ WellFormedRoi(last.fetched, last.rpn)) =>
    /\ last.has.present <=> HoldsHours(last.fetched, last.rpn)
    /\ HoldsHours(last.fetched, last.rpn) =>
         LET f == FirstHoursOf(EntriesOf(last.fetched)
                                 [MinOf(RoiWithHours(last.fetched, last.rpn))][2])
         IN Has(f, K("value")) => last.has.value = Get(f, K("value"), None)

(***************************************************************************)
(* C9: a malformed or unexpected shape degrades to 'field absent': for a   *)
(* definition that holds no hours descriptor, whatever else it holds,      *)
(* has_hours_field returns (False, None) and does not raise, and           *)
(* detect_roi_plugin_name returns None for a definition whose plugins or   *)
(* ExecutionLifecycle is not a dict.                                       *)
(***************************************************************************)
DetectAbsent ==
  EntriesOf(last.fetched) = <<>> => detect_roi_plugin_name(last.fetched) = None

HoursString(d, rpn) ==
  \E i \in RoiEntries(d, rpn) :
    LET c == EntriesOf(d)[i][2] IN
    /\ isinstance(c, "dict")
    /\ \E j \in 1..Len(Descriptors(Get(c, K("fields"), None))) :
         LET f == Descriptors(Get(c, K("fields"), None))[j] IN
         isinstance(f, "str") /\ Contains(Lower(f.v), <<"hours">>)

IsMalformedJson(x) == isinstance(x, "str") /\ ~loads(x.v).ok

StripConfig(c) ==
  IF ~isinstance(c, "dict") THEN c
  ELSE LET c1 == IF IsMalformedJson(Get(c, K("fields"), None))
                   THEN Pop(c, K("fields")) ELSE c
       IN IF IsMalformedJson(Get(c1, K("userRoiData"), None))
            THEN Pop(c1, K("userRoiData")) ELSE c1

StripEntries(e, rpn) ==
  [i \in 1..Len(e) |->
     IF IsRoiPlugin(e[i][1], rpn) THEN <<e[i][1], StripConfig(e[i][2])>> ELSE e[i]]

\* d without the malformed field lists of its ROI plugin entries
Strip(d, rpn) ==
  IF EntriesOf(d) = <<>> THEN d
  ELSE Put(d, K("plugins"),
           Put(Get(d, K("plugins"), None), K("ExecutionLifecycle"),
               Dict(StripEntries(EntriesOf(d), rpn))))

SameAsAbsent(s, u) ==
  /\ last.has = has_hours_field(s, last.rpn)
  /\ last.outcome # "already" =>
       /\ u.post <=> ~isinstance(last.sent, "null")
       /\ Strip(last.mem, last.rpn) = u.def
       /\ u.post => Strip(last.sent, last.rpn) = u.data

MalformedJsonAsAbsent ==
  (/\ Applied /\ Answered
   /\ Strip(last.fetched, last.rpn) # last.fetched)
    => SameAsAbsent(Strip(last.fetched, last.rpn),
                    update_job(Strip(last.fetched, last.rpn), last.rpn))

(***************************************************************************)
(* C11: a failed list-jobs, get-job-definition or import call skips the    *)
(* job or project it was issued for and is not retried: in a run in which  *)
(* such calls fail, no failed call is issued a second time, no job is      *)
(* counted as updated without its calls succeeding, and the run ends with  *)
(* its summary after a get-job-definition call for every job of every      *)
(* selected project whose jobs were listed.  Stated for the servers on     *)
(* which a run without failures reaches its summary: a job among those     *)
(* scanned carries an ROI plugin, and every project has a name.            *)
(***************************************************************************)
\* 1 for a call of ensure_roi_plugin_name, 2 for a call of the loop of run()
Phase(i) ==
  Cardinality({j \in 1..i : calls[j].run = calls[i].run /\ calls[j].kind = "projects"})

CallsOf(r) == {i \in 1..Len(calls) : calls[i].run = r}
FailedCalls(r) == {i \in CallsOf(r) : ~calls[i].ok}

\* the run has returned, or has raised
RunEnded == run > 0 /\ pc \in Ended \ {"idle"}

ProjectNames == {NameOf(projects.v[i]) : i \in 1..Len(projects.v)}

\* ensure_roi_plugin_name finds a plugin name when no call fails
Detectable ==
  \E i \in 1..Min(3, Len(projects.v)) :
    /\ NameOf(projects.v[i]) # <<>>
    /\ \E j \in 1..Min(5, Len(jobs_of[NameOf(projects.v[i])])) :
         Truthy(detect_roi_plugin_name(Stored(jobs_of[NameOf(projects.v[i])][j])))

\* the projects the filter selects
Selected(name) ==
  /\ name \in ProjectNames \ {<<>>}
  /\ Lower(project_filter) = <<"all">> \/ Lower(name) = Lower(project_filter)

LoopCall(i, kind, name, job, ok) ==
  /\ i \in CallsOf(run) /\ Phase(i) = 2
  /\ calls[i].kind = kind /\ calls[i].project = name /\ calls[i].job = job
  /\ calls[i].ok = ok

NoRetry ==
  \A i \in FailedCalls(run) : \A j \in CallsOf(run) \ {i} :
    (/\ calls[j].kind = calls[i].kind /\ calls[j].project = calls[i].project
     /\ calls[j].job = calls[i].job)
      => Phase(j) # Phase(i)

CountsOnlySuccess ==
  IF dry_run
    THEN total_jobs_updated
           <= Cardinality({i \in CallsOf(run) : Phase(i) = 2 /\ calls[i].kind = "get"
                                                  /\ calls[i].ok})
    ELSE total_jobs_updated
           = Cardinality({i \in CallsOf(run) : calls[i].kind = "import" /\ calls[i].ok})

RestProcessed ==
  /\ pc = "done"
  /\ \A name \in ProjectNames : Selected(name) =>
       /\ \E i \in CallsOf(run), ok \in BOOLEAN : LoopCall(i, "jobs", name, "", ok)
       /\ (\E i \in CallsOf(run) : LoopCall(i, "jobs", name, "", TRUE)) =>
            \A k \in 1..Len(jobs_of[name]) :
              \E i \in CallsOf(run), ok \in BOOLEAN :
                LoopCall(i, "get", name, jobs_of[name][k], ok)

FailureSkipsOnlyItsJob ==
  (/\ RunEnded
   /\ FailedCalls(run) # {}
   /\ \A i \in FailedCalls(run) : calls[i].kind \in {"jobs", "get", "import"}
   /\ Detectable
   /\ <<>> \notin ProjectNames)
    => NoRetry /\ CountsOnlySuccess /\ RestProcessed

(***************************************************************************)
(* C12: a dry run reports the changes an apply run makes.  When a dry run  *)
(* is followed by an apply run on the same server with the same filter,    *)
(* and no call fails, the jobs the dry run reported as needing the hours   *)
(* field are the jobs for which the apply run issues an import call, and   *)
(* the Updates total of the dry run is their number.  Stated for the       *)
(* servers whose job definitions are JSON objects that are not empty.      *)
(***************************************************************************)
DryReported(r) == {job \in JobIds : <<r, job>> \in reported}
Imported(r) == {calls[i].job : i \in {j \in CallsOf(r) : calls[j].kind = "import"}}

DefinitionsAreObjects ==
  \A job \in JobIds : isinstance(Stored(job), "dict") /\ Truthy(Stored(job))

\* a dry run and then an apply run have ended, and every call succeeded
DryThenApplyDone ==
  /\ run = 2 /\ modes = <<TRUE, FALSE>> /\ pc = "done"
  /\ AllCallsOk

DefinitionsNamed ==
  \A job \in JobIds :
    Truthy(Stored(job)) => isinstance(Stored(job), "dict") /\ Has(Stored(job), K("name"))

Filtered == Lower(project_filter) # <<"all">>

FilterConfinesRun ==
  Filtered =>
    /\ \A i \in 1..Len(calls) :
         (Phase(i) = 2 /\ calls[i].kind \in {"jobs", "get", "import"})
           => Lower(calls[i].project) = Lower(project_filter)
    /\ pc # "raised"

(***************************************************************************)
(* C14: in an apply run the jobs are handled one after another, each with  *)
(* one read and at most one write.  An import call comes right after a     *)
(* successful get-job-definition call of the same job in the same run, and *)
(* only when has_hours_field answered false on what was fetched; no job    *)
(* has two import calls or two reads in the loop of one run; and while the *)
(* outcome of a job is pending the run is at that job, about to import it. *)
(* The log of calls only grows, so each conjunct is stated of the call     *)
(* issued last: every call is the last one in the state that follows it.   *)
(***************************************************************************)
ImportCalls == {i \in 1..Len(calls) : calls[i].kind = "import"}

LastCall == calls[Len(calls)]

ImportFollowsItsGet ==
  (Len(calls) > 0 /\ LastCall.kind = "import") =>
    /\ ~modes[LastCall.run]
    /\ Len(calls) > 1
    /\ calls[Len(calls) - 1].kind = "get" /\ calls[Len(calls) - 1].ok
    /\ calls[Len(calls) - 1].run = LastCall.run
    /\ calls[Len(calls) - 1].job = LastCall.job
    /\ calls[Len(calls) - 1].project = LastCall.project

\* the import call issued last was decided on a definition without the field
ImportOnlyWithoutField ==
  (Len(calls) > 0 /\ LastCall.kind = "import") =>
    /\ last.run = LastCall.run /\ last.job = LastCall.job
    /\ Truthy(last.fetched)
    /\ ~last.has.present

OneReadOneWrite ==
  \A j \in 1..(Len(calls) - 1) :
    (/\ LastCall.kind \in {"get", "import"} /\ ~modes[LastCall.run]
     /\ calls[j].kind = LastCall.kind /\ calls[j].run = LastCall.run
     /\ calls[j].job = LastCall.job)
      => Phase(j) # Phase(Len(calls))

OutcomeBeforeNextJob ==
  /\ pc = "r_update" <=> (last.outcome = "pending")
  /\ pc = "r_update" =>
       /\ last.run = run /\ last.job = jobs[ji] /\ job_def = last.fetched
       /\ LastCall = Call("get", NameOf(projs[pi]), jobs[ji], TRUE)

JobsOneAfterAnother ==
  /\ ImportFollowsItsGet
  /\ ImportOnlyWithoutField
  /\ OneReadOneWrite
  /\ OutcomeBeforeNextJob

\* an apply run imported a job and went on to read the next job
ImportThenNextJob ==
  \E i \in ImportCalls :
    /\ calls[i].ok
    /\ i < Len(calls)
    /\ calls[i + 1].run = calls[i].run
    /\ calls[i + 1].kind = "get" /\ calls[i + 1].job # calls[i].job

(***************************************************************************)
(* C15: detection of the plugin name.  In a run in which no call of        *)
(* ensure_roi_plugin_name fails, the run aborts, with no job handled and   *)
(* no call of the processing loop, exactly when no job of any project has  *)
(* an ExecutionLifecycle plugin whose name contains 'roi' and 'metric' in  *)
(* any case; otherwise roi_plugin_name is set to such a name of a job of   *)
(* the server, and once set it does not change for the rest of the run.    *)
(***************************************************************************)
NamesRoiMetric(name) ==
  /\ Contains(Lower(name), <<"roi">>)
  /\ Contains(Lower(name), <<"metric">>)

RoiNamesIn(entries) ==
  {entries[i][1] : i \in {j \in 1..Len(entries) : NamesRoiMetric(entries[j][1])}}

RoiNamesOf(job) == RoiNamesIn(EntriesOf(Stored(job)))

\* the jobs of every project of the server
AllJobs ==
  UNION {{jobs_of[name][k] : k \in 1..Len(jobs_of[name])} : name \in ProjectNames \ {<<>>}}

\* the jobs ensure_roi_plugin_name reads: the first five jobs of each of the
\* first three projects (lines 164 and 173)
ScannedJobs ==
  UNION {{jobs_of[NameOf(projects.v[i])][k] :
            k \in 1..Min(5, Len(jobs_of[NameOf(projects.v[i])]))} :
         i \in {j \in 1..Min(3, Len(projects.v)) : NameOf(projects.v[j]) # <<>>}}

\* ensure_roi_plugin_name has returned, and none of its calls failed
DetectionOver ==
  /\ run > 0
  /\ pc \notin {"idle", "e_projects", "e_project", "e_job"}
  /\ \A i \in FailedCalls(run) : Phase(i) = 2

Aborted ==
  /\ pc = "undetected"
  /\ ~Truthy(roi_plugin_name)
  /\ last.run # run
  /\ \A i \in CallsOf(run) : Phase(i) = 1 /\ calls[i].kind # "import"

DetectedAmong(js) ==
  /\ pc # "undetected"
  /\ isinstance(roi_plugin_name, "str")
  /\ \E job \in js : roi_plugin_name.v \in RoiNamesOf(job)

\* within a run, a name that is set is kept
NameKept ==
  [][(Truthy(roi_plugin_name) /\ run' = run) => roi_plugin_name' = roi_plugin_name]_vars

====
